---- MODULE Spec2Model ----
(***************************************************************************)
(* A model of the bosma_uz backend: the authentication core (AuthService)  *)
(* over the credential store, and the cart-to-order conversion             *)
(* (CartService.convertCartToOrder, OrderService.placeOrderFromCart) over  *)
(* the relational store.                                                   *)
(***************************************************************************)
EXTENDS Integers, Sequences, FiniteSets, TLC

(***************************************************************************)
(* Bounds of the model.                                                    *)
(***************************************************************************)
\* the clock runs over 0..MaxTime (minutes)
MaxTime == 6
\* the one-time codes Math.random can draw are 1..MaxCode
MaxCode == 2

\* sendOtp / forgotPassword: otpExpires.setMinutes(getMinutes() + 5)
OtpTtlMinutes == 5

\* the emails a caller may present, and those among them that get registered
\* (the store holds the account of a@x.uz; b@x.uz stays unknown to it)
Emails == {"a@x.uz", "b@x.uz"}
Accounts == {"a@x.uz"}
Passwords == {"pw1", "pw2"}
OtpCodes == 1..MaxCode
Times == 0..MaxTime
\* the role field of a registration input; NoRole: the field is absent
NoRole == "none"
Roles == {"USER", "ADMIN", "SUPER_ADMIN"}
RoleInputs == Roles \cup {NoRole}
\* what the mail transport does with one message: delivered, refused for the
\* daily limit (swallowed by MailService.sendSmsToMail), or failed
MailOutcomes == {"sent", "limit", "fail"}

\* a nullable column: <<>> is null, <<x>> holds x
Null == <<>>
Some(x) == <<x>>
IsNull(v) == v = <<>>
Val(v) == v[1]

(***************************************************************************)
(* Byte strings as bcrypt sees them: the first 72 bytes and the rest.      *)
(* A short string (a password, a 6-digit code) lies within the first 72    *)
(* bytes.  A signed JWT is header "." payload "." signature; the payload   *)
(* jsonwebtoken serialises is {sub, email, iat, exp} in this order, so the *)
(* first 72 bytes of a refresh token hold the header, sub and the start of *)
(* email, and iat, exp and the signature lie beyond them.                  *)
(***************************************************************************)
ShortStr(s) == [first72 |-> s, rest |-> 0]
\* jwtService.signAsync({sub, email}, {expiresIn: '7d'}) at time iat
JwtSign(user, iat) == [first72 |-> user, rest |-> iat + 1]
PresentedTokens == {JwtSign(e, t) : e \in Emails, t \in Times}
\* bcrypt.hash: only the first 72 bytes of the input are used
BcryptHash(s) == [bcrypt |-> s.first72]
BcryptCompare(s, h) == h = BcryptHash(s)
PwStr(p) == ShortStr(p)
\* otpCode = Math.floor(100000 + Math.random() * 900000).toString()
OtpStr(c) == ShortStr(ToString(c))

(***************************************************************************)
(* State.                                                                  *)
(*   users     the credential store: one row per email (a row that is not  *)
(*             registered does not exist); the user's id is its email      *)
(*   now       the wall clock, in minutes                                  *)
(*   resp      the outcome of the last call: the operation, the user it    *)
(*             was for, its inputs, the error kind ("ok" when none) and    *)
(*             its cause, and the refresh token it returned, if any        *)
(*   otpSpent  history: the user's OTP was consumed by a successful        *)
(*             verifyOtp and no sendOtp / forgotPassword stored a new one  *)
(***************************************************************************)
VARIABLES users, now, resp, otpSpent

authVars == <<users, now, resp, otpSpent>>

VARIABLES carts, cartItems, orders, price, nextId, conv, cartResp, assets

cartVars == <<carts, cartItems, orders, price, nextId, conv, cartResp, assets>>
vars == <<users, now, resp, otpSpent, carts, cartItems, orders, price, nextId, conv, cartResp,
          assets>>

NoUserRow ==
    [registered |-> FALSE, role |-> "USER", isActive |-> FALSE,
     password |-> Null, otpCode |-> Null, otpExpires |-> Null,
     hashedRefreshToken |-> Null]

\* an outcome; role, otp and presented are the call's inputs of that kind
\* (NoRole, 0 and null when it has none)
Resp(op, email, status, why, token) ==
    [op |-> op, email |-> email, status |-> status, why |-> why,
     role |-> NoRole, otp |-> 0, presented |-> Null, refreshToken |-> token]
RegisterResp(email, roleIn, status, why) ==
    [Resp("register", email, status, why, Null) EXCEPT !.role = roleIn]
OtpResp(op, email, code, status, why) ==
    [Resp(op, email, status, why, Null) EXCEPT !.otp = code]
RefreshResp(email, presented, status, why, token) ==
    [Resp("refreshTokens", email, status, why, token) EXCEPT !.presented = Some(presented)]

(***************************************************************************)
(* UserService: the credential store's access paths.                       *)
(***************************************************************************)
\* userService.findByEmail / findUserWithRefreshToken: the row, or none
FindUser(e) == users[e]
UserFound(e) == users[e].registered

\* userService.create(dto): persists the dto's fields, hashing the password
UserCreate(dto) ==
    [users EXCEPT ![dto.email] =
        [registered |-> TRUE, role |-> dto.role, isActive |-> dto.isActive,
         password |-> Some(BcryptHash(PwStr(dto.password))),
         otpCode |-> Null, otpExpires |-> Null, hashedRefreshToken |-> Null]]

\* userService.update(id, patch): writes the patch's fields and no other; a
\* password in the patch is hashed by the store's own write path
UserUpdate(id, patch) ==
    [users EXCEPT ![id] =
        [f \in DOMAIN users[id] |->
            IF f \in DOMAIN patch
            THEN IF f = "password" THEN Some(BcryptHash(PwStr(patch[f]))) ELSE patch[f]
            ELSE users[id][f]]]

\* the mail transport: sendSmsToMail swallows the daily-limit refusal and
\* rethrows every other failure
MailThrows(m) == m = "fail"

(***************************************************************************)
(* AuthService.                                                            *)
(***************************************************************************)
\* register that takes the role of the input when it has one
RegisterTrustsDto(e, pw, roleIn) ==
    /\ IF UserFound(e)
       THEN /\ resp' = RegisterResp(e, roleIn, "Conflict", "email")
            /\ users' = users
       ELSE /\ users' = UserCreate([email |-> e, password |-> pw,
                                    role |-> IF roleIn = NoRole THEN "USER" ELSE roleIn,
                                    isActive |-> roleIn # NoRole])
            /\ resp' = RegisterResp(e, roleIn, "ok", "")
    /\ UNCHANGED <<now, otpSpent>>
    /\ UNCHANGED cartVars

\* register that overwrites the role of the input without rejecting it
RegisterNoRoleCheck(e, pw, roleIn) ==
    /\ IF UserFound(e)
       THEN /\ resp' = RegisterResp(e, roleIn, "Conflict", "email")
            /\ users' = users
       ELSE /\ users' = UserCreate([email |-> e, password |-> pw,
                                    role |-> "USER", isActive |-> FALSE])
            /\ resp' = RegisterResp(e, roleIn, "ok", "")
    /\ UNCHANGED <<now, otpSpent>>
    /\ UNCHANGED cartVars

Register(e, pw, roleIn) ==
    /\ IF roleIn # NoRole
       THEN /\ resp' = RegisterResp(e, roleIn, "BadRequest", "role")
            /\ users' = users
       ELSE IF UserFound(e)
       THEN /\ resp' = RegisterResp(e, roleIn, "Conflict", "email")
            /\ users' = users
       ELSE /\ users' = UserCreate([email |-> e, password |-> pw,
                                    role |-> "USER", isActive |-> FALSE])
            /\ resp' = RegisterResp(e, roleIn, "ok", "")
    /\ UNCHANGED <<now, otpSpent>>
    /\ UNCHANGED cartVars

\* the checks of login without the one on isActive
LoginFailureNoActive(e, pw) ==
    LET user == FindUser(e) IN
    IF ~UserFound(e) THEN "credentials"
    ELSE IF ~BcryptCompare(PwStr(pw), Val(user.password)) THEN "credentials"
    ELSE ""

\* the checks of login, in the code's order: "" when all pass
LoginFailure(e, pw) ==
    LET user == FindUser(e) IN
    IF ~UserFound(e) THEN "credentials"
    ELSE IF ~user.isActive THEN "inactive"
    ELSE IF ~BcryptCompare(PwStr(pw), Val(user.password)) THEN "credentials"
    ELSE ""

Login(e, pw) ==
    /\ IF LoginFailure(e, pw) # ""
       THEN /\ resp' = Resp("login", e, "Unauthorized", LoginFailure(e, pw), Null)
            /\ users' = users
       ELSE LET refreshToken == JwtSign(e, now) IN
            /\ users' = UserUpdate(e, [hashedRefreshToken |-> Some(BcryptHash(refreshToken))])
            /\ resp' = Resp("login", e, "ok", "", Some(refreshToken))
    /\ UNCHANGED <<now, otpSpent>>
    /\ UNCHANGED cartVars

\* the checks of refreshTokens without the one on isActive
RefreshFailureNoActive(userId, refreshToken) ==
    LET user == FindUser(userId) IN
    IF ~UserFound(userId) THEN "session"
    ELSE IF IsNull(user.hashedRefreshToken) THEN "session"
    ELSE IF ~BcryptCompare(refreshToken, Val(user.hashedRefreshToken)) THEN "session"
    ELSE ""

\* the checks of refreshTokens, in the code's order: "" when all pass
RefreshFailure(userId, refreshToken) ==
    LET user == FindUser(userId) IN
    IF ~UserFound(userId) THEN "session"
    ELSE IF IsNull(user.hashedRefreshToken) THEN "session"
    ELSE IF ~BcryptCompare(refreshToken, Val(user.hashedRefreshToken)) THEN "session"
    ELSE IF ~user.isActive THEN "inactive"
    ELSE ""

RefreshTokens(userId, refreshToken) ==
    /\ IF RefreshFailure(userId, refreshToken) # ""
       THEN /\ resp' = RefreshResp(userId, refreshToken, "Unauthorized",
                                   RefreshFailure(userId, refreshToken), Null)
            /\ users' = users
       ELSE LET newRefreshToken == JwtSign(userId, now) IN
            /\ users' = UserUpdate(userId,
                            [hashedRefreshToken |-> Some(BcryptHash(newRefreshToken))])
            /\ resp' = RefreshResp(userId, refreshToken, "ok", "", Some(newRefreshToken))
    /\ UNCHANGED <<now, otpSpent>>
    /\ UNCHANGED cartVars

\* logout that leaves the stored refresh hash as it is
LogoutKeepsHash(userId) ==
    /\ IF ~UserFound(userId)
       THEN resp' = Resp("logout", userId, "NotFound", "user", Null)
       ELSE resp' = Resp("logout", userId, "ok", "", Null)
    /\ UNCHANGED <<users, now, otpSpent>>
    /\ UNCHANGED cartVars

\* userService.update on a row that does not exist fails and writes nothing
Logout(userId) ==
    /\ IF ~UserFound(userId)
       THEN /\ resp' = Resp("logout", userId, "NotFound", "user", Null)
            /\ users' = users
       ELSE /\ users' = UserUpdate(userId, [hashedRefreshToken |-> Null])
            /\ resp' = Resp("logout", userId, "ok", "", Null)
    /\ UNCHANGED <<now, otpSpent>>
    /\ UNCHANGED cartVars

\* sendOtp that keeps a pending code instead of replacing it
SendOtpKeepsPending(e, code, mail) ==
    /\ IF ~UserFound(e)
       THEN /\ resp' = Resp("sendOtp", e, "NotFound", "user", Null)
            /\ UNCHANGED <<users, otpSpent>>
       ELSE /\ users' = IF IsNull(FindUser(e).otpCode)
                        THEN UserUpdate(e, [otpCode |-> Some(BcryptHash(OtpStr(code))),
                                            otpExpires |-> Some(now + OtpTtlMinutes)])
                        ELSE users
            /\ otpSpent' = [otpSpent EXCEPT ![e] = FALSE]
            /\ resp' = IF MailThrows(mail)
                       THEN Resp("sendOtp", e, "Internal", "mail", Null)
                       ELSE Resp("sendOtp", e, "ok", "", Null)
    /\ now' = now
    /\ UNCHANGED cartVars

SendOtp(e, code, mail) ==
    /\ IF ~UserFound(e)
       THEN /\ resp' = Resp("sendOtp", e, "NotFound", "user", Null)
            /\ UNCHANGED <<users, otpSpent>>
       ELSE /\ users' = UserUpdate(e, [otpCode |-> Some(BcryptHash(OtpStr(code))),
                                       otpExpires |-> Some(now + OtpTtlMinutes)])
            /\ otpSpent' = [otpSpent EXCEPT ![e] = FALSE]
            /\ resp' = IF MailThrows(mail)
                       THEN Resp("sendOtp", e, "Internal", "mail", Null)
                       ELSE Resp("sendOtp", e, "ok", "", Null)
    /\ now' = now
    /\ UNCHANGED cartVars

\* the checks of verifyOtp without the one on otpExpires
VerifyOtpFailureNoExpiry(e, code) ==
    LET user == FindUser(e) IN
    IF ~UserFound(e) THEN <<"NotFound", "user">>
    ELSE IF IsNull(user.otpCode) THEN <<"BadRequest", "no-otp">>
    ELSE IF ~BcryptCompare(OtpStr(code), Val(user.otpCode))
         THEN <<"BadRequest", "invalid">>
    ELSE <<"ok", "">>

\* the checks of verifyOtp with the code compared before the expiry
VerifyOtpFailureCodeFirst(e, code) ==
    LET user == FindUser(e) IN
    IF ~UserFound(e) THEN <<"NotFound", "user">>
    ELSE IF IsNull(user.otpCode) THEN <<"BadRequest", "no-otp">>
    ELSE IF ~BcryptCompare(OtpStr(code), Val(user.otpCode))
         THEN <<"BadRequest", "invalid">>
    ELSE IF ~IsNull(user.otpExpires) /\ Val(user.otpExpires) < now
         THEN <<"BadRequest", "expired">>
    ELSE <<"ok", "">>

\* the checks of verifyOtp, in the code's order: <<error kind, cause>>
VerifyOtpFailure(e, code) ==
    LET user == FindUser(e) IN
    IF ~UserFound(e) THEN <<"NotFound", "user">>
    ELSE IF IsNull(user.otpCode) THEN <<"BadRequest", "no-otp">>
    ELSE IF ~IsNull(user.otpExpires) /\ Val(user.otpExpires) < now
         THEN <<"BadRequest", "expired">>
    ELSE IF ~BcryptCompare(OtpStr(code), Val(user.otpCode))
         THEN <<"BadRequest", "invalid">>
    ELSE <<"ok", "">>

\* verifyOtp that activates the user and leaves the OTP fields as they are
VerifyOtpKeepsOtp(e, code) ==
    LET f == VerifyOtpFailure(e, code) IN
    /\ IF f[1] # "ok"
       THEN /\ resp' = OtpResp("verifyOtp", e, code, f[1], f[2])
            /\ UNCHANGED <<users, otpSpent>>
       ELSE /\ users' = UserUpdate(e, [isActive |-> TRUE])
            /\ otpSpent' = [otpSpent EXCEPT ![e] = TRUE]
            /\ resp' = OtpResp("verifyOtp", e, code, "ok", "")
    /\ now' = now
    /\ UNCHANGED cartVars

VerifyOtp(e, code) ==
    LET f == VerifyOtpFailure(e, code) IN
    /\ IF f[1] # "ok"
       THEN /\ resp' = OtpResp("verifyOtp", e, code, f[1], f[2])
            /\ UNCHANGED <<users, otpSpent>>
       ELSE /\ users' = UserUpdate(e, [isActive |-> TRUE, otpCode |-> Null,
                                       otpExpires |-> Null])
            /\ otpSpent' = [otpSpent EXCEPT ![e] = TRUE]
            /\ resp' = OtpResp("verifyOtp", e, code, "ok", "")
    /\ now' = now
    /\ UNCHANGED cartVars

ForgotPassword(e, code, mail) ==
    /\ IF ~UserFound(e)
       THEN /\ resp' = Resp("forgotPassword", e, "ok", "generic", Null)
            /\ UNCHANGED <<users, otpSpent>>
       ELSE /\ users' = UserUpdate(e, [otpCode |-> Some(BcryptHash(OtpStr(code))),
                                       otpExpires |-> Some(now + OtpTtlMinutes)])
            /\ otpSpent' = [otpSpent EXCEPT ![e] = FALSE]
            /\ resp' = IF MailThrows(mail)
                       THEN Resp("forgotPassword", e, "Internal", "mail", Null)
                       ELSE Resp("forgotPassword", e, "ok", "generic", Null)
    /\ now' = now
    /\ UNCHANGED cartVars

\* the code checks that the user exists and nothing else: the submitted OTP
\* is not read
ResetPassword(e, code, newPassword) ==
    /\ IF ~UserFound(e)
       THEN /\ resp' = OtpResp("resetPassword", e, code, "NotFound", "user")
            /\ users' = users
       ELSE /\ users' = UserUpdate(e, [password |-> newPassword, isActive |-> TRUE,
                                       otpCode |-> Null, otpExpires |-> Null])
            /\ resp' = OtpResp("resetPassword", e, code, "ok", "")
    /\ UNCHANGED <<now, otpSpent>>
    /\ UNCHANGED cartVars

\* an administrator deactivates the account: UserController.update ->
\* userService.update(id, {isActive: false})
Deactivate(id) ==
    /\ UserFound(id)
    /\ users' = UserUpdate(id, [isActive |-> FALSE])
    /\ resp' = Resp("deactivate", id, "ok", "", Null)
    /\ UNCHANGED <<now, otpSpent>>
    /\ UNCHANGED cartVars

\* time passes
Tick(d) ==
    /\ now + d <= MaxTime
    /\ now' = now + d
    /\ resp' = Resp("tick", "", "ok", "", Null)
    /\ UNCHANGED <<users, otpSpent>>
    /\ UNCHANGED cartVars

(***************************************************************************)
(* The cart and the orders.                                                *)
(*   carts       the Cart rows [id, userId]                                *)
(*   cartItems   the CartItem rows [id, cartId, variantId, quantity]       *)
(*   orders      the Order rows, each with its nested OrderItems           *)
(*   price       the Variant rows: the price of each variant               *)
(*   nextId      the store's auto-increment counters                       *)
(*   conv        per request: the position of a running cart-to-order      *)
(*               conversion, what it read, and the writes of its           *)
(*               transaction that are not committed yet                    *)
(*   cartResp    the outcome of the last completed cart or order call      *)
(*   assets      the Asset rows [id, userId, url]                          *)
(***************************************************************************)
\* rows a run may create
MaxItemId == 2
MaxOrderId == 2
MaxAssetId == 2
\* a row's quantity stays <= MaxQuantity
MaxQuantity == 2
\* the quantities a caller gives: to add, and to set (0 and below delete)
AddQuantities == {1, 2}
SetQuantities == {-5, 0, 1, 2}
\* the integers the service's addItemToCart may be handed
AnyQuantities == {-1, 0, 1, 2}

CartUsers == {"u1", "u2"}
Variants == {"v1", "v2"}
\* a variant id no Variant row has
NoVariant == "v0"
Prices == {0, 2}
Procs == {"p1", "p2"}
Services == {"convertCartToOrder", "placeOrderFromCart"}
\* shippingDetails: with and without region / address
ShippingInputs ==
    {[customerName |-> "Ann", customerPhone |-> "+998901112233", region |-> r, address |-> r]
        : r \in {"", "Tashkent"}}

RECURSIVE SortById(_)
\* the rows of S as a list, by id
SortById(S) ==
    IF S = {} THEN <<>>
    ELSE LET m == CHOOSE x \in S : \A y \in S : x.id <= y.id
         IN <<m>> \o SortById(S \ {m})

RECURSIVE SumTotalNoQuantity(_)
\* a total that adds each item's price once, whatever its quantity
SumTotalNoQuantity(items) ==
    IF items = <<>> THEN 0
    ELSE Head(items).price + SumTotalNoQuantity(Tail(items))

RECURSIVE SumTotal(_)
\* items.reduce((sum, item) => sum + price * quantity, 0)
SumTotal(items) ==
    IF items = <<>> THEN 0
    ELSE Head(items).price * Head(items).quantity + SumTotal(Tail(items))

\* prisma.cart.findFirst({where: {userId}}): the user's cart rows
CartsOf(userId) == {c \in carts : c.userId = userId}
FirstCart(userId) == CHOOSE c \in CartsOf(userId) : \A d \in CartsOf(userId) : c.id <= d.id
ItemsOf(cartId) == {i \in cartItems : i.cartId = cartId}

Idle == [pc |-> "idle", svc |-> "", userId |-> "", cartId |-> 0, items |-> <<>>,
         totalPrice |-> 0, shipping |-> <<>>, orderId |-> 0, staged |-> <<>>,
         deleted |-> {}, variantId |-> "", quantity |-> 0, existing |-> <<>>,
         presented |-> <<>>, issued |-> <<>>, overlap |-> FALSE]

CartResp(op, userId, status, why, orderId) ==
    [op |-> op, userId |-> userId, status |-> status, why |-> why, orderId |-> orderId]

\* rows deleted by a transaction that has not committed: locked until it ends
LockedIds == UNION {conv[q].deleted : q \in Procs}

OrderItem(item) ==
    [variantId |-> item.variantId, quantity |-> item.quantity, price |-> item.price]

RECURSIVE MapItems(_)
\* cart.items.map(item => ({variantId, quantity, price: item.variant.price}))
MapItems(items) ==
    IF items = <<>> THEN <<>> ELSE <<OrderItem(Head(items))>> \o MapItems(Tail(items))

\* include: {items: {include: {variant: true}}}: each item with its variant's price
WithVariant(item) ==
    [id |-> item.id, variantId |-> item.variantId, quantity |-> item.quantity,
     price |-> price[item.variantId]]

RECURSIVE ReadItems(_)
ReadItems(rows) ==
    IF rows = <<>> THEN <<>> ELSE <<WithVariant(Head(rows))>> \o ReadItems(Tail(rows))

\* a || b on strings: "" is falsy
OrElse(a, b) == IF a # "" THEN a ELSE b

\* the data of tx.order.create in each of the two services
OrderData(svc, userId, totalPrice, shipping, items, id) ==
    [id |-> id, userId |-> userId, status |-> "PENDING", paymentStatus |-> "UNPAID",
     totalPrice |-> totalPrice,
     customerName |-> shipping.customerName,
     customerPhone |-> shipping.customerPhone,
     region |-> IF svc = "placeOrderFromCart"
                THEN OrElse(shipping.region, "Unknown") ELSE shipping.region,
     address |-> IF svc = "placeOrderFromCart"
                 THEN OrElse(shipping.address, "Unknown") ELSE shipping.address,
     items |-> MapItems(items)]

(***************************************************************************)
(* convertCartToOrder / placeOrderFromCart, one step per await.            *)
(***************************************************************************)
\* ConvRead without the check for an absent or empty cart
ConvReadNoEmptyCheck(p, userId, svc, shipping) ==
    /\ conv[p].pc = "idle"
    /\ LET items == IF CartsOf(userId) = {} THEN <<>>
                    ELSE ReadItems(SortById(ItemsOf(FirstCart(userId).id)))
           totalPrice == SumTotal(items)
       IN IF svc = "placeOrderFromCart" /\ totalPrice <= 0
          THEN /\ cartResp' = CartResp(svc, userId, "BadRequest", "total", 0)
               /\ conv' = conv
          ELSE /\ conv' = [conv EXCEPT ![p] =
                    [Idle EXCEPT !.pc = "read", !.svc = svc, !.userId = userId,
                                 !.cartId = IF CartsOf(userId) = {} THEN 0
                                            ELSE FirstCart(userId).id,
                                 !.items = items,
                                 !.totalPrice = totalPrice, !.shipping = Some(shipping)]]
               /\ cartResp' = cartResp
    /\ UNCHANGED <<carts, cartItems, orders, price, nextId>>
    /\ UNCHANGED <<authVars, assets>>

\* the cart is read, outside the transaction, and the checks before it run
ConvRead(p, userId, svc, shipping) ==
    /\ conv[p].pc = "idle"
    /\ LET items == IF CartsOf(userId) = {} THEN <<>>
                    ELSE ReadItems(SortById(ItemsOf(FirstCart(userId).id)))
           totalPrice == SumTotal(items)
       IN IF items = <<>>
          THEN /\ cartResp' = CartResp(svc, userId, "BadRequest", "empty", 0)
               /\ conv' = conv
          ELSE IF svc = "placeOrderFromCart" /\ totalPrice <= 0
          THEN /\ cartResp' = CartResp(svc, userId, "BadRequest", "total", 0)
               /\ conv' = conv
          ELSE /\ conv' = [conv EXCEPT ![p] =
                    [Idle EXCEPT !.pc = "read", !.svc = svc, !.userId = userId,
                                 !.cartId = FirstCart(userId).id, !.items = items,
                                 !.totalPrice = totalPrice, !.shipping = Some(shipping)]]
               /\ cartResp' = cartResp
    /\ UNCHANGED <<carts, cartItems, orders, price, nextId>>
    /\ UNCHANGED <<authVars, assets>>

\* the result of a whole conversion run without another request in between
\* and without a failure of the store: the error, or the order created (its id
\* left 0) and the cart items left
ConvOutcome(svc, userId, shipping) ==
    LET items == IF CartsOf(userId) = {} THEN <<>>
                 ELSE ReadItems(SortById(ItemsOf(FirstCart(userId).id)))
        totalPrice == SumTotal(items)
    IN IF items = <<>>
       THEN [status |-> "BadRequest", why |-> "empty", order |-> Null,
             cartItems |-> cartItems]
       ELSE IF svc = "placeOrderFromCart" /\ totalPrice <= 0
       THEN [status |-> "BadRequest", why |-> "total", order |-> Null,
             cartItems |-> cartItems]
       ELSE [status |-> "ok", why |-> "",
             order |-> Some(OrderData(svc, userId, totalPrice, shipping, items, 0)),
             cartItems |-> cartItems \ ItemsOf(FirstCart(userId).id)]

\* the transaction fails: its writes are discarded and the call fails
Rollback(p) ==
    /\ conv' = [conv EXCEPT ![p] = Idle]
    /\ cartResp' = CartResp(conv[p].svc, conv[p].userId, "Internal", "transaction", 0)
    /\ UNCHANGED <<carts, cartItems, orders, price>>

\* TxCreate with the order written by the service's own client, outside the
\* transaction: the row is in the store at once
TxCreateOutsideTx(p, fail) ==
    /\ conv[p].pc = "read"
    /\ nextId.order <= MaxOrderId
    /\ IF fail
       THEN Rollback(p) /\ nextId' = nextId
       ELSE /\ nextId' = [nextId EXCEPT !.order = @ + 1]
            /\ conv' = [conv EXCEPT ![p].pc = "created", ![p].orderId = nextId.order,
                                    ![p].staged = Some(OrderData(conv[p].svc, conv[p].userId,
                                                        conv[p].totalPrice,
                                                        Val(conv[p].shipping),
                                                        conv[p].items, nextId.order))]
            /\ orders' = orders \cup {OrderData(conv[p].svc, conv[p].userId,
                                                conv[p].totalPrice, Val(conv[p].shipping),
                                                conv[p].items, nextId.order)}
            /\ UNCHANGED <<carts, cartItems, price, cartResp>>
    /\ UNCHANGED <<authVars, assets>>

\* tx.order.create with the nested items: written inside the transaction
TxCreate(p, fail) ==
    /\ conv[p].pc = "read"
    /\ nextId.order <= MaxOrderId
    /\ IF fail
       THEN Rollback(p) /\ nextId' = nextId
       ELSE /\ nextId' = [nextId EXCEPT !.order = @ + 1]
            /\ conv' = [conv EXCEPT ![p].pc = "created",
                                    ![p].orderId = nextId.order,
                                    ![p].staged = Some(OrderData(conv[p].svc, conv[p].userId,
                                                        conv[p].totalPrice,
                                                        Val(conv[p].shipping),
                                                        conv[p].items, nextId.order))]
            /\ UNCHANGED <<carts, cartItems, orders, price, cartResp>>
    /\ UNCHANGED <<authVars, assets>>

\* tx.cartItem.deleteMany({where: {cartId}}): deletes, inside the transaction,
\* the cart's rows of that moment; it waits for rows another transaction holds
TxDelete(p, fail) ==
    /\ conv[p].pc = "created"
    /\ ItemsOf(conv[p].cartId) \cap {i \in cartItems : i.id \in LockedIds} = {}
    /\ IF fail
       THEN Rollback(p)
       ELSE /\ conv' = [conv EXCEPT ![p].pc = "deleted",
                                    ![p].deleted = {i.id : i \in ItemsOf(conv[p].cartId)}]
            /\ UNCHANGED <<carts, cartItems, orders, price, cartResp>>
    /\ UNCHANGED nextId
    /\ UNCHANGED <<authVars, assets>>

\* the transaction commits: its writes take effect together
TxCommit(p, fail) ==
    /\ conv[p].pc = "deleted"
    /\ IF fail
       THEN Rollback(p)
       ELSE /\ orders' = orders \cup {Val(conv[p].staged)}
            /\ cartItems' = {i \in cartItems : i.id \notin conv[p].deleted}
            /\ IF conv[p].svc = "placeOrderFromCart"
               THEN /\ conv' = [conv EXCEPT ![p].pc = "mail", ![p].deleted = {}]
                    /\ cartResp' = cartResp
               ELSE /\ conv' = [conv EXCEPT ![p] = Idle]
                    /\ cartResp' = CartResp(conv[p].svc, conv[p].userId, "ok", "",
                                            conv[p].orderId)
            /\ UNCHANGED <<carts, price>>
    /\ UNCHANGED nextId
    /\ UNCHANGED <<authVars, assets>>

\* ConvMail that lets the mail's failure fail the call
ConvMailRethrows(p, mail) ==
    /\ conv[p].pc = "mail"
    /\ conv' = [conv EXCEPT ![p] = Idle]
    /\ cartResp' = IF MailThrows(mail)
                   THEN CartResp(conv[p].svc, conv[p].userId, "Internal", "mail", 0)
                   ELSE CartResp(conv[p].svc, conv[p].userId, "ok", "", conv[p].orderId)
    /\ UNCHANGED <<carts, cartItems, orders, price, nextId>>
    /\ UNCHANGED <<authVars, assets>>

\* placeOrderFromCart: the confirmation mail; a failure is caught and logged
\* (why = "mail-logged") and the order is returned
ConvMail(p, mail) ==
    /\ conv[p].pc = "mail"
    /\ conv' = [conv EXCEPT ![p] = Idle]
    /\ cartResp' = CartResp(conv[p].svc, conv[p].userId, "ok",
                            IF MailThrows(mail) THEN "mail-logged" ELSE "",
                            conv[p].orderId)
    /\ UNCHANGED <<carts, cartItems, orders, price, nextId>>
    /\ UNCHANGED <<authVars, assets>>

(***************************************************************************)
(* CartService: the calls on the cart.                                     *)
(***************************************************************************)
\* prisma.cart.create({data: {userId}})
CreateCart(userId) == carts \cup {[id |-> nextId.cart, userId |-> userId]}

GetMyCart(userId) ==
    /\ IF CartsOf(userId) = {}
       THEN /\ carts' = CreateCart(userId)
            /\ nextId' = [nextId EXCEPT !.cart = @ + 1]
       ELSE UNCHANGED <<carts, nextId>>
    /\ cartResp' = CartResp("getMyCart", userId, "ok", "", 0)
    /\ UNCHANGED <<cartItems, orders, price, conv>>
    /\ UNCHANGED <<authVars, assets>>

AddItemToCart(userId, variantId, quantity) ==
    LET created == CartsOf(userId) = {}
        cartId == IF created THEN nextId.cart ELSE FirstCart(userId).id
        existing == {i \in ItemsOf(cartId) : i.variantId = variantId}
    IN
    /\ carts' = IF created THEN CreateCart(userId) ELSE carts
    /\ IF variantId \notin Variants
       THEN /\ cartResp' = CartResp("addItemToCart", userId, "NotFound", "variant", 0)
            /\ cartItems' = cartItems
            /\ nextId' = [nextId EXCEPT !.cart = IF created THEN @ + 1 ELSE @]
       ELSE IF existing # {}
       THEN LET existingItem == CHOOSE i \in existing : \A j \in existing : i.id <= j.id IN
            /\ existingItem.id \notin LockedIds
            /\ existingItem.quantity + quantity <= MaxQuantity
            /\ existingItem.quantity + quantity >= -MaxQuantity
            /\ cartItems' = (cartItems \ {existingItem})
                             \cup {[existingItem EXCEPT !.quantity = @ + quantity]}
            /\ cartResp' = CartResp("addItemToCart", userId, "ok", "", 0)
            /\ nextId' = [nextId EXCEPT !.cart = IF created THEN @ + 1 ELSE @]
       ELSE /\ nextId.item <= MaxItemId
            /\ cartItems' = cartItems \cup {[id |-> nextId.item, cartId |-> cartId,
                                             variantId |-> variantId,
                                             quantity |-> quantity]}
            /\ cartResp' = CartResp("addItemToCart", userId, "ok", "", 0)
            /\ nextId' = [nextId EXCEPT !.cart = IF created THEN @ + 1 ELSE @,
                                        !.item = @ + 1]
    /\ UNCHANGED <<orders, price, conv>>
    /\ UNCHANGED <<authVars, assets>>

(***************************************************************************)
(* addItemToCart, one step per await: the calls of concurrent requests     *)
(* interleave between the steps.  AddItemToCart above is the call run      *)
(* without another request in between.                                     *)
(***************************************************************************)
\* cart = prisma.cart.findFirst({where: {userId}}); cartId 0: none found
AddFindCart(p, userId, variantId, quantity) ==
    /\ conv[p].pc = "idle"
    /\ conv' = [conv EXCEPT ![p] =
            [Idle EXCEPT !.pc = "addCart", !.svc = "addItemToCart", !.userId = userId,
                         !.cartId = IF CartsOf(userId) = {} THEN 0
                                    ELSE FirstCart(userId).id,
                         !.variantId = variantId, !.quantity = quantity]]
    /\ UNCHANGED <<carts, cartItems, orders, price, nextId, cartResp>>
    /\ UNCHANGED <<authVars, assets>>

\* if (!cart) cart = create(userId); then variant.findUnique and its check
AddFindVariant(p) ==
    LET created == conv[p].cartId = 0
        cartId == IF created THEN nextId.cart ELSE conv[p].cartId
    IN
    /\ conv[p].pc = "addCart"
    /\ carts' = IF created THEN CreateCart(conv[p].userId) ELSE carts
    /\ nextId' = [nextId EXCEPT !.cart = IF created THEN @ + 1 ELSE @]
    /\ IF conv[p].variantId \notin Variants
       THEN /\ cartResp' = CartResp("addItemToCart", conv[p].userId, "NotFound",
                                    "variant", 0)
            /\ conv' = [conv EXCEPT ![p] = Idle]
       ELSE /\ conv' = [conv EXCEPT ![p].pc = "addVariant", ![p].cartId = cartId]
            /\ cartResp' = cartResp
    /\ UNCHANGED <<cartItems, orders, price>>
    /\ UNCHANGED <<authVars, assets>>

\* existingItem = prisma.cartItem.findFirst({where: {cartId, variantId}})
AddFindItem(p) ==
    LET existing == {i \in ItemsOf(conv[p].cartId) : i.variantId = conv[p].variantId} IN
    /\ conv[p].pc = "addVariant"
    /\ conv' = [conv EXCEPT ![p].pc = "addFound",
                            ![p].existing =
                                IF existing = {} THEN Null
                                ELSE Some(CHOOSE i \in existing :
                                             \A j \in existing : i.id <= j.id)]
    /\ UNCHANGED <<carts, cartItems, orders, price, nextId, cartResp>>
    /\ UNCHANGED <<authVars, assets>>

\* cartItem.update({where: {id}, data: {quantity: existingItem.quantity +
\* quantity}}) when an item was found (it fails when the row is gone by now),
\* cartItem.create otherwise
AddWrite(p) ==
    /\ conv[p].pc = "addFound"
    /\ IF ~IsNull(conv[p].existing)
       THEN LET existingItem == Val(conv[p].existing) IN
            /\ existingItem.id \notin LockedIds
            /\ existingItem.quantity + conv[p].quantity <= MaxQuantity
            /\ IF \E i \in cartItems : i.id = existingItem.id
               THEN /\ cartItems' =
                         {IF i.id = existingItem.id
                          THEN [i EXCEPT !.quantity = existingItem.quantity + conv[p].quantity]
                          ELSE i : i \in cartItems}
                    /\ cartResp' = CartResp("addItemToCart", conv[p].userId, "ok", "", 0)
               ELSE /\ cartItems' = cartItems
                    /\ cartResp' = CartResp("addItemToCart", conv[p].userId, "Internal",
                                            "gone", 0)
            /\ nextId' = nextId
       ELSE /\ nextId.item <= MaxItemId
            /\ cartItems' = cartItems \cup {[id |-> nextId.item, cartId |-> conv[p].cartId,
                                             variantId |-> conv[p].variantId,
                                             quantity |-> conv[p].quantity]}
            /\ nextId' = [nextId EXCEPT !.item = @ + 1]
            /\ cartResp' = CartResp("addItemToCart", conv[p].userId, "ok", "", 0)
    /\ conv' = [conv EXCEPT ![p] = Idle]
    /\ UNCHANGED <<carts, orders, price>>
    /\ UNCHANGED <<authVars, assets>>

\* the lookup by id alone, whoever owns the cart
OwnItemAnyUser(userId, itemId) == {i \in cartItems : i.id = itemId}

(***************************************************************************)
(* getMyCart, one step per await.  GetMyCart above is the call run without *)
(* another request in between.                                             *)
(***************************************************************************)
\* cart = prisma.cart.findFirst({where: {userId}, include}); cartId 0: none
GetFindCart(p, userId) ==
    /\ conv[p].pc = "idle"
    /\ conv' = [conv EXCEPT ![p] =
            [Idle EXCEPT !.pc = "getCart", !.svc = "getMyCart", !.userId = userId,
                         !.cartId = IF CartsOf(userId) = {} THEN 0
                                    ELSE FirstCart(userId).id]]
    /\ UNCHANGED <<carts, cartItems, orders, price, nextId, cartResp>>
    /\ UNCHANGED <<authVars, assets>>

\* if (!cart) cart = await this.create(userId); return cart
GetCreateCart(p) ==
    LET created == conv[p].cartId = 0 IN
    /\ conv[p].pc = "getCart"
    /\ carts' = IF created THEN CreateCart(conv[p].userId) ELSE carts
    /\ nextId' = [nextId EXCEPT !.cart = IF created THEN @ + 1 ELSE @]
    /\ conv' = [conv EXCEPT ![p] = Idle]
    /\ cartResp' = CartResp("getMyCart", conv[p].userId, "ok", "", 0)
    /\ UNCHANGED <<cartItems, orders, price>>
    /\ UNCHANGED <<authVars, assets>>

(***************************************************************************)
(* refreshTokens, in the two parts that concurrent requests interleave:    *)
(* the read of the user with the checks on what was read, and the signing  *)
(* and storing of the new token.  RefreshTokens above is the call run      *)
(* without another request in between.  A request that completed keeps the *)
(* token it presented and the token it was issued (pc = "refreshDone")     *)
(* until it starts its next call.                                          *)
(***************************************************************************)
\* user = findUserWithRefreshToken(userId) and the four checks on it
RefreshCheck(p, userId, refreshToken) ==
    /\ conv[p].pc \in {"idle", "refreshDone"}
    /\ IF RefreshFailure(userId, refreshToken) # ""
       THEN /\ resp' = RefreshResp(userId, refreshToken, "Unauthorized",
                                   RefreshFailure(userId, refreshToken), Null)
            /\ conv' = [conv EXCEPT ![p] = Idle]
       ELSE /\ conv' = [conv EXCEPT ![p] =
                    [Idle EXCEPT !.pc = "refreshChecked", !.svc = "refreshTokens",
                                 !.userId = userId, !.presented = Some(refreshToken)]]
            /\ resp' = resp
    /\ UNCHANGED <<users, now, otpSpent>>
    /\ UNCHANGED <<carts, cartItems, orders, price, nextId, cartResp, assets>>

\* signAsync, bcrypt.hash and userService.update(user.id, {hashedRefreshToken});
\* overlap: another request for the user had passed its checks by then
RefreshWrite(p) ==
    LET userId == conv[p].userId
        newRefreshToken == JwtSign(userId, now)
    IN
    /\ conv[p].pc = "refreshChecked"
    /\ users' = UserUpdate(userId, [hashedRefreshToken |-> Some(BcryptHash(newRefreshToken))])
    /\ resp' = RefreshResp(userId, Val(conv[p].presented), "ok", "", Some(newRefreshToken))
    /\ conv' = [conv EXCEPT ![p].pc = "refreshDone",
                            ![p].issued = Some(newRefreshToken),
                            ![p].overlap =
                                \E q \in Procs \ {p} :
                                    /\ conv[q].pc = "refreshChecked"
                                    /\ conv[q].userId = userId]
    /\ UNCHANGED <<now, otpSpent>>
    /\ UNCHANGED <<carts, cartItems, orders, price, nextId, cartResp, assets>>

\* cartItem.findFirst({where: {id: itemId, cart: {userId}}})
OwnItem(userId, itemId) ==
    {i \in cartItems : i.id = itemId /\ \E c \in CartsOf(userId) : c.id = i.cartId}

\* updateCartItem that adds the given quantity to the item's
UpdateCartItemAdditive(userId, itemId, quantity) ==
    /\ itemId \notin LockedIds
    /\ IF OwnItem(userId, itemId) = {}
       THEN /\ cartResp' = CartResp("updateCartItem", userId, "NotFound", "item", 0)
            /\ cartItems' = cartItems
       ELSE /\ cartResp' = CartResp("updateCartItem", userId, "ok", "", 0)
            /\ cartItems' =
                 IF quantity <= 0
                 THEN {i \in cartItems : i.id # itemId}
                 ELSE {IF i.id = itemId THEN [i EXCEPT !.quantity = @ + quantity] ELSE i
                          : i \in cartItems}
    /\ UNCHANGED <<carts, orders, price, nextId, conv>>
    /\ UNCHANGED <<authVars, assets>>

UpdateCartItem(userId, itemId, quantity) ==
    /\ itemId \notin LockedIds
    /\ IF OwnItem(userId, itemId) = {}
       THEN /\ cartResp' = CartResp("updateCartItem", userId, "NotFound", "item", 0)
            /\ cartItems' = cartItems
       ELSE /\ cartResp' = CartResp("updateCartItem", userId, "ok", "", 0)
            /\ cartItems' =
                 IF quantity <= 0
                 THEN {i \in cartItems : i.id # itemId}
                 ELSE {IF i.id = itemId THEN [i EXCEPT !.quantity = quantity] ELSE i
                          : i \in cartItems}
    /\ UNCHANGED <<carts, orders, price, nextId, conv>>
    /\ UNCHANGED <<authVars, assets>>

RemoveItem(userId, itemId) ==
    /\ itemId \notin LockedIds
    /\ IF OwnItem(userId, itemId) = {}
       THEN /\ cartResp' = CartResp("removeItem", userId, "NotFound", "item", 0)
            /\ cartItems' = cartItems
       ELSE /\ cartResp' = CartResp("removeItem", userId, "ok", "", 0)
            /\ cartItems' = {i \in cartItems : i.id # itemId}
    /\ UNCHANGED <<carts, orders, price, nextId, conv>>
    /\ UNCHANGED <<authVars, assets>>

\* cartItem.deleteMany({where: {cart: {userId}}})
ClearCart(userId) ==
    LET mine == {i \in cartItems : \E c \in CartsOf(userId) : c.id = i.cartId} IN
    /\ {i.id : i \in mine} \cap LockedIds = {}
    /\ cartItems' = cartItems \ mine
    /\ cartResp' = CartResp("clearCart", userId, "ok", "", 0)
    /\ UNCHANGED <<carts, orders, price, nextId, conv>>
    /\ UNCHANGED <<authVars, assets>>

\* a price change that reaches the items of the orders made of the variant, as
\* if an order item took its price from the live Variant row
UpdateVariantRepricesOrders(variantId, newPrice) ==
    /\ price' = [price EXCEPT ![variantId] = newPrice]
    /\ cartResp' = CartResp("updateVariant", "", "ok", "", 0)
    /\ orders' = {[o EXCEPT !.items =
                      [k \in 1..Len(o.items) |->
                          IF o.items[k].variantId = variantId
                          THEN [o.items[k] EXCEPT !.price = newPrice]
                          ELSE o.items[k]]] : o \in orders}
    /\ UNCHANGED <<carts, cartItems, nextId, conv>>
    /\ UNCHANGED <<authVars, assets>>

\* VariantService.update(id, {price})
UpdateVariant(variantId, newPrice) ==
    /\ price' = [price EXCEPT ![variantId] = newPrice]
    /\ cartResp' = CartResp("updateVariant", "", "ok", "", 0)
    /\ UNCHANGED <<carts, cartItems, orders, nextId, conv>>
    /\ UNCHANGED <<authVars, assets>>

\* the items lists OrderService.update is handed: each item with the price
\* and quantity the caller gives
UpdateItemInputs ==
    {<<>>,
     <<[variantId |-> "v1", quantity |-> 1, price |-> 2]>>,
     <<[variantId |-> "v1", quantity |-> 2, price |-> 2],
       [variantId |-> "v2", quantity |-> 1, price |-> 0]>>}
\* updateData.userId: absent, or another user's id
UpdateUserIds == {Null, Some("u2")}

\* the Order row with that id, if any
OrderById(id) == {o \in orders : o.id = id}

\* OrderService.update, first await: prisma.order.update({where: {id}, data})
\* with data = updateData without items and userId, with the recomputed
\* totalPrice; it throws when the store fails or no order has the id
OrderUpdate(p, id, items, userId, fail) ==
    /\ conv[p].pc = "idle"
    /\ IF fail \/ OrderById(id) = {}
       THEN /\ cartResp' = CartResp("updateOrder", "", "Internal",
                                    IF fail THEN "store" ELSE "P2025", id)
            /\ UNCHANGED <<orders, conv>>
       ELSE LET order == CHOOSE o \in OrderById(id) : TRUE IN
            /\ orders' = (orders \ {order})
                           \cup {[order EXCEPT !.totalPrice = SumTotal(items)]}
            /\ conv' = [conv EXCEPT ![p] =
                          [Idle EXCEPT !.pc = "orderUpdated", !.svc = "updateOrder",
                                       !.orderId = id, !.items = items,
                                       !.totalPrice = SumTotal(items),
                                       !.existing = Some(order)]]
            /\ cartResp' = cartResp
    /\ UNCHANGED <<carts, cartItems, price, nextId>>
    /\ UNCHANGED <<authVars, assets>>

\* second await: prisma.orderItem.deleteMany({where: {orderId: id}})
OrderDeleteItems(p, fail) ==
    /\ conv[p].pc = "orderUpdated"
    /\ IF fail
       THEN /\ cartResp' = CartResp("updateOrder", "", "Internal", "store", conv[p].orderId)
            /\ conv' = [conv EXCEPT ![p] = Idle]
            /\ orders' = orders
       ELSE /\ orders' = {IF o.id = conv[p].orderId THEN [o EXCEPT !.items = <<>>] ELSE o
                             : o \in orders}
            /\ conv' = [conv EXCEPT ![p].pc = "orderItemsDeleted"]
            /\ cartResp' = cartResp
    /\ UNCHANGED <<carts, cartItems, price, nextId>>
    /\ UNCHANGED <<authVars, assets>>

\* third await: prisma.orderItem.createMany with the given items, then the
\* order is read and returned
OrderCreateItems(p, fail) ==
    /\ conv[p].pc = "orderItemsDeleted"
    /\ IF fail
       THEN /\ cartResp' = CartResp("updateOrder", "", "Internal", "store", conv[p].orderId)
            /\ orders' = orders
       ELSE /\ orders' = {IF o.id = conv[p].orderId
                           THEN [o EXCEPT !.items = o.items \o MapItems(conv[p].items)]
                           ELSE o : o \in orders}
            /\ cartResp' = CartResp("updateOrder", "", "ok", "", conv[p].orderId)
    /\ conv' = [conv EXCEPT ![p] = Idle]
    /\ UNCHANGED <<carts, cartItems, price, nextId>>
    /\ UNCHANGED <<authVars, assets>>

AssetUrls == {"a.png", "b.png"}

\* prisma.asset.findUnique({where: {id}}): the Asset row with that id, if any
AssetById(id) == {a \in assets : a.id = id}

\* securityService.validateOwnership(userId, asset.userId, 'asset') throws
\* when the asset is another user's
ValidateOwnership(userId, ownerId) == userId = ownerId

\* the try block of findOne, update and remove up to the ownership check:
\* what it throws, "" when it throws nothing
AssetCheck(id, userId) ==
    IF AssetById(id) = {} THEN "NotFoundException"
    ELSE IF ~ValidateOwnership(userId, (CHOOSE a \in AssetById(id) : TRUE).userId)
    THEN "ForbiddenException"
    ELSE ""

\* the catch block of findOne, update and remove: an error that is not a
\* PrismaClientKnownRequestError is replaced by a BadRequestException
AssetCatch(op, userId, thrown) ==
    CartResp(op, userId,
             IF thrown \in {"P2025"} THEN "NotFound" ELSE "BadRequest", thrown, 0)

\* AssetService.uploadFile: the file is stored and its Asset row created
UploadFile(userId, url) ==
    /\ nextId.asset <= MaxAssetId
    /\ assets' = assets \cup {[id |-> nextId.asset, userId |-> userId, url |-> url]}
    /\ nextId' = [nextId EXCEPT !.asset = @ + 1]
    /\ cartResp' = CartResp("uploadFile", userId, "ok", "", 0)
    /\ UNCHANGED <<carts, cartItems, orders, price, conv>>
    /\ UNCHANGED authVars

\* AssetService.findOne
AssetFindOne(id, userId) ==
    /\ cartResp' = IF AssetCheck(id, userId) # ""
                   THEN AssetCatch("asset.findOne", userId, AssetCheck(id, userId))
                   ELSE CartResp("asset.findOne", userId, "ok", "", 0)
    /\ UNCHANGED <<carts, cartItems, orders, price, nextId, conv, assets>>
    /\ UNCHANGED authVars

\* AssetService.update
AssetUpdate(id, url, userId) ==
    /\ IF AssetCheck(id, userId) # ""
       THEN /\ cartResp' = AssetCatch("asset.update", userId, AssetCheck(id, userId))
            /\ assets' = assets
       ELSE /\ assets' = {IF a.id = id THEN [a EXCEPT !.url = url] ELSE a : a \in assets}
            /\ cartResp' = CartResp("asset.update", userId, "ok", "", 0)
    /\ UNCHANGED <<carts, cartItems, orders, price, nextId, conv>>
    /\ UNCHANGED authVars

\* AssetService.remove; a failure to delete the stored file is logged and the
\* row is deleted all the same
AssetRemove(id, userId, fileFails) ==
    /\ IF AssetCheck(id, userId) # ""
       THEN /\ cartResp' = AssetCatch("asset.remove", userId, AssetCheck(id, userId))
            /\ assets' = assets
       ELSE /\ assets' = assets \ AssetById(id)
            /\ cartResp' = CartResp("asset.remove", userId, "ok",
                                    IF fileFails THEN "file-logged" ELSE "", 0)
    /\ UNCHANGED <<carts, cartItems, orders, price, nextId, conv>>
    /\ UNCHANGED authVars

InitCart ==
    /\ carts = {}
    /\ cartItems = {}
    /\ orders = {}
    /\ price = [v \in Variants |-> 2]
    /\ nextId = [cart |-> 1, item |-> 1, order |-> 1, asset |-> 1]
    /\ assets = {}
    /\ conv = [p \in Procs |-> Idle]
    /\ cartResp = CartResp("init", "", "ok", "", 0)

InitAuth ==
    /\ users = [e \in Emails |-> NoUserRow]
    /\ now = 0
    /\ resp = Resp("init", "", "ok", "", Null)
    /\ otpSpent = [e \in Emails |-> FALSE]

NextAuth ==
    \/ \E e \in Accounts, pw \in Passwords, r \in RoleInputs : Register(e, pw, r)
    \/ \E e \in Emails, pw \in Passwords : Login(e, pw)
    \/ \E e \in Emails, t \in PresentedTokens : RefreshTokens(e, t)
    \/ \E e \in Emails : Logout(e)
    \/ \E e \in Emails, c \in OtpCodes, m \in MailOutcomes : SendOtp(e, c, m)
    \/ \E e \in Emails, c \in OtpCodes : VerifyOtp(e, c)
    \/ \E e \in Emails, c \in OtpCodes, m \in MailOutcomes : ForgotPassword(e, c, m)
    \/ \E e \in Emails, c \in OtpCodes, pw \in Passwords : ResetPassword(e, c, pw)
    \/ \E e \in Accounts : Deactivate(e)
    \/ \E d \in {1, OtpTtlMinutes} : Tick(d)

Init == InitAuth /\ InitCart

\* a checkout of one user's cart among that user's other cart calls; every
\* step of the transaction may fail
NextCheckout ==
    \/ \E v \in Variants, q \in AddQuantities : AddItemToCart("u1", v, q)
    \/ \E i \in 1..MaxItemId, q \in SetQuantities : UpdateCartItem("u1", i, q)
    \/ \E i \in 1..MaxItemId : RemoveItem("u1", i)
    \/ ClearCart("u1")
    \/ \E svc \in Services :
          ConvRead("p1", "u1", svc, CHOOSE sh \in ShippingInputs : sh.region # "")
    \/ \E fail \in BOOLEAN : TxCreate("p1", fail)
    \/ \E fail \in BOOLEAN : TxDelete("p1", fail)
    \/ \E fail \in BOOLEAN : TxCommit("p1", fail)
    \/ \E m \in MailOutcomes : ConvMail("p1", m)

\* the cart calls of one user by concurrent requests: the steps of the
\* addItemToCart calls and of a checkout interleave with each other and with
\* the other calls
NextCart ==
    \/ \E p \in Procs, v \in Variants, q \in AddQuantities : AddFindCart(p, "u1", v, q)
    \/ \E p \in Procs : AddFindVariant(p)
    \/ \E p \in Procs : AddFindItem(p)
    \/ \E p \in Procs : AddWrite(p)
    \/ \E i \in 1..MaxItemId, q \in SetQuantities : UpdateCartItem("u1", i, q)
    \/ \E i \in 1..MaxItemId : RemoveItem("u1", i)
    \/ ClearCart("u1")
    \/ ConvRead("p1", "u1", "convertCartToOrder",
                CHOOSE sh \in ShippingInputs : sh.region # "")
    \/ TxCreate("p1", FALSE)
    \/ TxDelete("p1", FALSE)
    \/ TxCommit("p1", FALSE)

\* the orders made from a cart whose items and prices change: the conversions
\* of both services, with the confirmation mail and its outcomes
NextOrder ==
    \/ \E v \in Variants, q \in AddQuantities : AddItemToCart("u1", v, q)
    \/ \E np \in Prices : UpdateVariant("v1", np)
    \/ \E svc \in Services :
          ConvRead("p1", "u1", svc, CHOOSE sh \in ShippingInputs : sh.region = "")
    \/ TxCreate("p1", FALSE)
    \/ TxDelete("p1", FALSE)
    \/ TxCommit("p1", FALSE)
    \/ \E m \in MailOutcomes : ConvMail("p1", m)

SpecOrder == Init /\ [][NextOrder]_vars

\* addItemToCart, updateCartItem and removeItem of one user, called with any
\* integer quantity
NextQuantity ==
    \/ \E v \in Variants, q \in AnyQuantities : AddItemToCart("u1", v, q)
    \/ \E i \in 1..MaxItemId, q \in SetQuantities : UpdateCartItem("u1", i, q)
    \/ \E i \in 1..MaxItemId : RemoveItem("u1", i)

SpecQuantity == Init /\ [][NextQuantity]_vars

\* getMyCart and addItemToCart calls of one user by concurrent requests
NextLazyCart ==
    \/ \E p \in Procs : GetFindCart(p, "u1")
    \/ \E p \in Procs : GetCreateCart(p)
    \/ \E p \in Procs, v \in Variants \cup {NoVariant}, q \in AddQuantities :
          AddFindCart(p, "u1", v, q)
    \/ \E p \in Procs : AddFindVariant(p)
    \/ \E p \in Procs : AddFindItem(p)
    \/ \E p \in Procs : AddWrite(p)

SpecLazyCart == Init /\ [][NextLazyCart]_vars

\* orders and what happens after them: the cart calls of a user, the price
\* changes of the variant, and the user's conversions
NextSnapshot ==
    \/ \E q \in AddQuantities : AddItemToCart("u1", "v1", q)
    \/ \E i \in 1..MaxItemId, q \in SetQuantities : UpdateCartItem("u1", i, q)
    \/ \E i \in 1..MaxItemId : RemoveItem("u1", i)
    \/ ClearCart("u1")
    \/ \E np \in Prices : UpdateVariant("v1", np)
    \/ ConvRead("p1", "u1", "convertCartToOrder",
                CHOOSE sh \in ShippingInputs : sh.region # "")
    \/ TxCreate("p1", FALSE)
    \/ TxDelete("p1", FALSE)
    \/ TxCommit("p1", FALSE)

SpecSnapshot == Init /\ [][NextSnapshot]_vars

\* the checkouts of one user by concurrent requests, of either service, while
\* the user adds items
NextDouble ==
    \/ \E q \in AddQuantities : AddItemToCart("u1", "v1", q)
    \/ \E p \in Procs, svc \in Services :
          ConvRead(p, "u1", svc, CHOOSE sh \in ShippingInputs : sh.region # "")
    \/ \E p \in Procs : TxCreate(p, FALSE)
    \/ \E p \in Procs : TxDelete(p, FALSE)
    \/ \E p \in Procs : TxCommit(p, FALSE)
    \/ \E p \in Procs : ConvMail(p, "sent")

SpecDouble == Init /\ [][NextDouble]_vars

\* the orders a user's checkouts create, and the updates of those orders with
\* an items list, each store call of which may fail
NextUpdate ==
    \/ \E q \in AddQuantities : AddItemToCart("u1", "v1", q)
    \/ ConvRead("p1", "u1", "convertCartToOrder",
                CHOOSE sh \in ShippingInputs : sh.region # "")
    \/ TxCreate("p1", FALSE)
    \/ TxDelete("p1", FALSE)
    \/ TxCommit("p1", FALSE)
    \/ \E id \in 1..MaxOrderId, items \in UpdateItemInputs, u \in UpdateUserIds,
          fail \in BOOLEAN : OrderUpdate("p1", id, items, u, fail)
    \/ \E fail \in BOOLEAN : OrderDeleteItems("p1", fail)
    \/ \E fail \in BOOLEAN : OrderCreateItems("p1", fail)

SpecUpdate == Init /\ [][NextUpdate]_vars

\* the asset calls of two users, with ids of assets that exist, that were
\* removed and that never existed
NextAsset ==
    \/ \E u \in CartUsers, url \in AssetUrls : UploadFile(u, url)
    \/ \E id \in 1..(MaxAssetId + 1), u \in CartUsers : AssetFindOne(id, u)
    \/ \E id \in 1..(MaxAssetId + 1), url \in AssetUrls, u \in CartUsers :
          AssetUpdate(id, url, u)
    \/ \E id \in 1..(MaxAssetId + 1), u \in CartUsers, f \in BOOLEAN : AssetRemove(id, u, f)

SpecAsset == Init /\ [][NextAsset]_vars

\* a user who registers, is activated and logs in, and the refreshTokens
\* calls of concurrent requests for that user while time passes
NextRefresh ==
    \/ Register("a@x.uz", "pw1", NoRole)
    \/ SendOtp("a@x.uz", 1, "sent")
    \/ VerifyOtp("a@x.uz", 1)
    \/ Login("a@x.uz", "pw1")
    \/ \E p \in Procs, i \in Times : RefreshCheck(p, "a@x.uz", JwtSign("a@x.uz", i))
    \/ \E p \in Procs : RefreshWrite(p)
    \/ Tick(1)

SpecRefresh == Init /\ [][NextRefresh]_vars

\* the cart calls of two users, and a checkout of either
NextOwn ==
    \/ \E u \in CartUsers : AddItemToCart(u, "v1", 1)
    \/ \E u \in CartUsers, i \in 1..MaxItemId, q \in SetQuantities : UpdateCartItem(u, i, q)
    \/ \E u \in CartUsers, i \in 1..MaxItemId : RemoveItem(u, i)
    \/ \E u \in CartUsers : ClearCart(u)
    \/ \E u \in CartUsers :
          ConvRead("p1", u, "convertCartToOrder",
                   CHOOSE sh \in ShippingInputs : sh.region # "")
    \/ TxCreate("p1", FALSE)
    \/ TxDelete("p1", FALSE)
    \/ TxCommit("p1", FALSE)

SpecOwn == Init /\ [][NextOwn]_vars

\* the authentication core alone, the checkouts, and the concurrent cart calls
SpecAuth == Init /\ [][NextAuth]_vars
SpecCheckout == Init /\ [][NextCheckout]_vars
SpecCart == Init /\ [][NextCart]_vars

(***************************************************************************)
(* The claims.                                                             *)
(***************************************************************************)

\* C1: the conversion is all-or-nothing.  While a conversion's transaction is
\* open its order is not in the store; and every step of a conversion either
\* leaves the orders and the cart items as they were (a step inside the
\* transaction, or its failure at any point), or (the commit) adds the order
\* with one order item per item read and removes, in the same step, every row
\* that the transaction's deleteMany deleted, which were all the rows the cart
\* had when it ran (a row added to the cart after that is a later addition and
\* stays).  No other step creates an order.
C1_OrderOf(p) == {o \in orders : o.id = conv[p].orderId}
C1_OpenTxInvisible ==
    \A p \in Procs :
        /\ conv[p].pc \in {"created", "deleted"} => C1_OrderOf(p) = {}
        /\ conv[p].pc = "mail" => C1_OrderOf(p) # {} /\ conv[p].deleted = {}
C1_StepAllOrNothing ==
    /\ orders' # orders => \E p \in Procs : conv[p].pc = "deleted" /\ conv'[p] # conv[p]
    /\ \A p \in Procs :
         conv[p].svc \in Services /\ conv'[p] # conv[p] =>
            \/ orders' = orders /\ cartItems' = cartItems
            \/ /\ orders' = orders \cup {Val(conv[p].staged)}
               /\ Val(conv[p].staged) \notin orders
               /\ Val(conv[p].staged).userId = conv[p].userId
               /\ Len(Val(conv[p].staged).items) = Len(conv[p].items)
               /\ Len(conv[p].items) >= 1
               /\ cartItems' = {i \in cartItems : i.id \notin conv[p].deleted}
    /\ \A p \in Procs :
         conv[p].pc = "created" /\ conv'[p].pc = "deleted" =>
            conv'[p].deleted = {i.id : i \in ItemsOf(conv[p].cartId)}
C1_AllOrNothing == []C1_OpenTxInvisible /\ [][C1_StepAllOrNothing]_vars

\* C1 witness: a transaction that failed after its order was created inside it:
\* no order is stored and the cart holds its items
C1_Witness ==
    /\ cartResp.status = "Internal"
    /\ nextId.order > 1
    /\ orders = {}
    /\ cartItems # {}

\* C2: refresh-token rotation.  When refreshTokens(userId, t) succeeds with a
\* token t issued before (for a user activated through verifyOtp) and returns
\* the new token, the previous token t is no longer accepted: a
\* refreshTokens(userId, t) in the state it leaves fails.
C2_PreviousTokenRejected ==
    [][\A u \in Emails, t \in PresentedTokens :
          /\ resp'.op = "refreshTokens" /\ resp'.status = "ok"
          /\ resp'.email = u /\ resp'.presented = Some(t)
          /\ t.rest <= now /\ resp'.refreshToken # Some(t)
          /\ otpSpent[u]
          => RefreshFailure(u, t)' # ""]_vars

\* C3: refreshTokens succeeds only if the user exists, has a stored refresh
\* hash, the presented token matches that hash and the user is active; in
\* every other case it fails with Unauthorized, returns no token and leaves
\* the stored refresh hash (the whole store) unchanged.
C3_Valid(u, t) ==
    /\ users[u].registered
    /\ ~IsNull(users[u].hashedRefreshToken)
    /\ BcryptCompare(t, Val(users[u].hashedRefreshToken))
    /\ users[u].isActive
C3_RefreshOnlyIfValid ==
    [][\A u \in Emails, t \in PresentedTokens :
          resp'.op = "refreshTokens" /\ resp'.email = u /\ resp'.presented = Some(t)
          => /\ resp'.status = "ok" <=> C3_Valid(u, t)
             /\ resp'.status = "ok" => ~IsNull(resp'.refreshToken)
             /\ ~C3_Valid(u, t) => /\ resp'.status = "Unauthorized"
                                   /\ IsNull(resp'.refreshToken)
                                   /\ users' = users]_vars

\* C3 witness: a refreshTokens with the matching token refused because the
\* user was deactivated
C3_Witness ==
    /\ resp.op = "refreshTokens" /\ resp.why = "inactive"
    /\ ~IsNull(users[resp.email].hashedRefreshToken)

\* C4: login on an inactive account fails with Unauthorized for every
\* password, returns no token and leaves the stored refresh hash unchanged.
C4_InactiveLoginFails ==
    [][\A e \in Emails :
          /\ resp'.op = "login" /\ resp'.email = e
          /\ users[e].registered /\ ~users[e].isActive
          => /\ resp'.status = "Unauthorized"
             /\ IsNull(resp'.refreshToken)
             /\ users'[e].hashedRefreshToken = users[e].hashedRefreshToken]_vars

\* C4 witness: a login refused on an inactive account that holds a refresh hash
C4_Witness ==
    /\ resp.op = "login" /\ resp.why = "inactive"
    /\ ~IsNull(users[resp.email].hashedRefreshToken)

\* C5: every user record that register persists has role USER and
\* isActive = false, whatever the input, its role field included.
C5_RegisterForcesRole ==
    [][\A e \in Emails :
          resp'.op = "register" /\ resp'.email = e /\ users'[e] # users[e]
          => /\ users'[e].registered
             /\ users'[e].role = "USER"
             /\ ~users'[e].isActive]_vars

\* C5 witness: register has persisted a user
C5_Witness ==
    /\ resp.op = "register" /\ resp.status = "ok"
    /\ users[resp.email].registered

\* C6: register with an input whose role field is set fails with BadRequest
\* and leaves the credential store unchanged.
C6_RoleRejected ==
    [][resp'.op = "register" /\ resp'.role # NoRole
          => resp'.status = "BadRequest" /\ users' = users]_vars

\* C6 witness: a registration that asked for ADMIN was refused and no user exists
C6_Witness ==
    /\ resp.op = "register" /\ resp.role = "ADMIN" /\ resp.status = "BadRequest"
    /\ ~users[resp.email].registered

\* C7: verifyOtp for a user with a pending OTP whose stored expiry has passed
\* fails with BadRequest, whatever the code, and leaves the user's row (isActive
\* and the OTP fields) unchanged.
C7_ExpiredOtpFails ==
    [][\A e \in Emails :
          /\ resp'.op = "verifyOtp" /\ resp'.email = e
          /\ users[e].registered /\ ~IsNull(users[e].otpCode)
          /\ ~IsNull(users[e].otpExpires) /\ Val(users[e].otpExpires) < now
          => /\ resp'.status = "BadRequest"
             /\ users'[e] = users[e]]_vars

\* C7 witness: the stored code itself was submitted after the expiry and refused
C7_Witness ==
    /\ resp.op = "verifyOtp" /\ resp.why = "expired"
    /\ users[resp.email].otpCode = Some(BcryptHash(OtpStr(resp.otp)))
    /\ ~users[resp.email].isActive

\* C8: a successful verifyOtp sets isActive and nulls otpCode and otpExpires,
\* and the OTP is single-use: every verifyOtp after it, with no sendOtp or
\* forgotPassword in between, fails with BadRequest (no OTP pending).
C8_OtpSingleUse ==
    [][\A e \in Emails :
          resp'.op = "verifyOtp" /\ resp'.email = e
          => /\ resp'.status = "ok"
                => /\ users'[e].isActive
                   /\ IsNull(users'[e].otpCode)
                   /\ IsNull(users'[e].otpExpires)
             /\ otpSpent[e]
                => resp'.status = "BadRequest" /\ resp'.why = "no-otp"]_vars

\* C8 witness: a second verifyOtp after the successful one was refused
C8_Witness ==
    /\ resp.op = "verifyOtp" /\ resp.why = "no-otp"
    /\ otpSpent[resp.email]

\* C9: resetPassword verifies the OTP under the rules of verifyOtp: when the
\* user has no pending OTP, the OTP has expired or the submitted code does not
\* match, it fails and leaves the user's row unchanged.
C9_ResetRequiresOtp ==
    [][\A e \in Emails, c \in OtpCodes :
          /\ resp'.op = "resetPassword" /\ resp'.email = e /\ resp'.otp = c
          /\ users[e].registered
          /\ VerifyOtpFailure(e, c)[1] # "ok"
          => resp'.status # "ok" /\ users'[e] = users[e]]_vars

\* C10: isActive goes from false to true only in a verifyOtp that passed its
\* checks, and login, refreshTokens, logout, sendOtp, forgotPassword and a
\* failed verifyOtp never change it.
C10_ActivationOnlyByOtp ==
    [][\A e \in Emails :
          /\ ~users[e].isActive /\ users'[e].isActive
             => resp'.op = "verifyOtp" /\ resp'.status = "ok" /\ resp'.email = e
          /\ \/ resp'.op \in {"login", "refreshTokens", "logout", "sendOtp",
                               "forgotPassword"}
             \/ resp'.op = "verifyOtp" /\ resp'.status # "ok"
             => users'[e].isActive = users[e].isActive]_vars

\* C11: after any interleaving of addItemToCart, updateCartItem, removeItem,
\* clearCart and checkout calls a cart holds at most one CartItem per
\* (cartId, variantId).
C11_OneItemPerVariant ==
    \A i \in cartItems, j \in cartItems :
        i.cartId = j.cartId /\ i.variantId = j.variantId => i.id = j.id

\* C12: the order a conversion (convertCartToOrder or placeOrderFromCart)
\* creates.  At the commit of a conversion that ran with the cart and the
\* prices as it read them (no other request changed them in between), the
\* order has totalPrice = the sum over the cart's items of the variant's
\* current price times the quantity, exactly one order item per cart item,
\* with that item's variantId, quantity and the variant's price, and the cart
\* has no items afterwards.
RECURSIVE C12_SumRows(_)
C12_SumRows(S) ==
    IF S = {} THEN 0
    ELSE LET r == CHOOSE x \in S : TRUE
         IN price[r.variantId] * r.quantity + C12_SumRows(S \ {r})
C12_AsRead(p) ==
    {WithVariant(i) : i \in ItemsOf(conv[p].cartId)}
        = {conv[p].items[k] : k \in 1..Len(conv[p].items)}
C12_OrderMatchesCart ==
    [][\A p \in Procs :
          conv[p].pc = "deleted" /\ orders' # orders /\ C12_AsRead(p)
          => \E o \in orders' \ orders :
                LET rows == ItemsOf(conv[p].cartId) IN
                /\ orders' = orders \cup {o}
                /\ o.userId = conv[p].userId
                /\ o.totalPrice = C12_SumRows(rows)
                /\ Len(o.items) = Cardinality(rows)
                /\ \A i \in rows : \E k \in 1..Len(o.items) :
                       o.items[k] = [variantId |-> i.variantId, quantity |-> i.quantity,
                                     price |-> price[i.variantId]]
                /\ {i \in cartItems' : i.cartId = conv[p].cartId} = {}]_vars

\* C12 witness: an order of two items, one of them at a price set to 0 after
\* the start and one with quantity 2, was created and the cart is empty
C12_Witness ==
    /\ cartResp.status = "ok" /\ cartResp.op \in Services
    /\ cartItems = {}
    /\ \E o \in orders :
          /\ o.id = cartResp.orderId
          /\ Len(o.items) = 2
          /\ o.totalPrice = 4
          /\ \E k \in 1..2 : o.items[k].price = 0
          /\ \E k \in 1..2 : o.items[k].quantity = 2

\* C13: convertCartToOrder / placeOrderFromCart for a user whose cart does not
\* exist or has no items fails with BadRequest, starts no transaction (so no
\* Order or OrderItem is created) and leaves the carts and cart items unchanged.
C13_NoItems(u) == CartsOf(u) = {} \/ ItemsOf(FirstCart(u).id) = {}
C13_EmptyCartRejected ==
    [][\A p \in Procs, u \in CartUsers, svc \in Services, sh \in ShippingInputs :
          ConvRead(p, u, svc, sh) /\ C13_NoItems(u)
          => /\ cartResp' = CartResp(svc, u, "BadRequest", "empty", 0)
             /\ conv' = conv
             /\ orders' = orders
             /\ carts' = carts /\ cartItems' = cartItems]_vars

\* C13 witness: a conversion was refused on a cart that exists and is empty
C13_Witness ==
    /\ cartResp.op \in Services /\ cartResp.status = "BadRequest"
    /\ cartResp.why = "empty"
    /\ CartsOf(cartResp.userId) # {}
    /\ ItemsOf(FirstCart(cartResp.userId).id) = {}

\* C14: updateCartItem(userId, itemId, quantity) on an item the user owns
\* deletes the item when quantity <= 0 (0 and negative values alike) and
\* otherwise sets its quantity to exactly the given value, whatever it was
\* before; no other row changes.
C14_UpdateSetsOrDeletes ==
    [][\A u \in CartUsers, id \in 1..MaxItemId, q \in SetQuantities :
          /\ cartResp'.op = "updateCartItem" /\ cartResp'.userId = u
          /\ OwnItem(u, id) # {}
          /\ UpdateCartItem(u, id, q)
          => LET item == CHOOSE i \in OwnItem(u, id) : TRUE IN
             /\ cartResp'.status = "ok"
             /\ cartItems' =
                   IF q <= 0 THEN cartItems \ {item}
                   ELSE (cartItems \ {item})
                          \cup {[id |-> id, cartId |-> item.cartId,
                                 variantId |-> item.variantId, quantity |-> q]}]_vars

\* C14 witness: the one item ever created was deleted by an updateCartItem
C14_Witness ==
    /\ cartResp.op = "updateCartItem" /\ cartResp.status = "ok"
    /\ nextId.item = 2
    /\ cartItems = {}

\* C15: in placeOrderFromCart a failure of the confirmation mail, after the
\* transaction committed, does not fail the call and undoes nothing: the call
\* returns the created order, the order stays stored and the cart items are
\* left as they are (the cart the commit emptied stays empty).
C15_MailFailureKeepsOrder ==
    [][\A p \in Procs, m \in MailOutcomes :
          ConvMail(p, m) /\ MailThrows(m)
          => /\ cartResp'.op = "placeOrderFromCart"
             /\ cartResp'.status = "ok"
             /\ cartResp'.orderId = conv[p].orderId
             /\ \E o \in orders' : o.id = conv[p].orderId /\ o.userId = conv[p].userId
             /\ orders' = orders
             /\ cartItems' = cartItems /\ carts' = carts]_vars

\* C15 witness: the mail failed, the call returned the order, the order is
\* stored and the cart is empty
C15_Witness ==
    /\ cartResp.op = "placeOrderFromCart" /\ cartResp.status = "ok"
    /\ cartResp.why = "mail-logged"
    /\ \E o \in orders : o.id = cartResp.orderId
    /\ cartItems = {}

\* C16: logout(userId) clears the stored refresh hash whatever it was and
\* changes nothing else; it is idempotent (a logout on a cleared hash leaves
\* the store as it is); and while the hash is cleared every refreshTokens for
\* the user fails with Unauthorized, the hash being set again only by a
\* successful login of that user.
C16_LogoutClears ==
    [][\A u \in Emails :
          /\ Logout(u) /\ UserFound(u)
             => /\ resp'.status = "ok"
                /\ users' = [users EXCEPT ![u].hashedRefreshToken = Null]
                /\ IsNull(users[u].hashedRefreshToken) => users' = users
          /\ resp'.op = "refreshTokens" /\ resp'.email = u
                /\ IsNull(users[u].hashedRefreshToken)
             => resp'.status = "Unauthorized" /\ users' = users
          /\ IsNull(users[u].hashedRefreshToken) /\ ~IsNull(users'[u].hashedRefreshToken)
             => resp'.op = "login" /\ resp'.status = "ok" /\ resp'.email = u]_vars

\* C16 witness: a logout of an active user has left the hash cleared, and
\* every refresh token presented for the user is refused
C16_Witness ==
    /\ resp.op = "logout" /\ resp.status = "ok"
    /\ users[resp.email].isActive
    /\ IsNull(users[resp.email].hashedRefreshToken)
    /\ \A t \in PresentedTokens : RefreshFailure(resp.email, t) = "session"

\* C17: forgotPassword does not disclose whether an account exists: every
\* call returns the same generic message, whether or not the email belongs to
\* a user, and for an email that belongs to none it changes no stored state.
C17_ForgotPasswordGeneric ==
    [][\A e \in Emails, c \in OtpCodes, m \in MailOutcomes :
          ForgotPassword(e, c, m)
          => /\ resp'.status = "ok" /\ resp'.why = "generic"
             /\ ~UserFound(e) => users' = users]_vars

\* C18: a failed login does not reveal whether the email belongs to an
\* account: for every wrong password, the error of login for an email that has
\* a user is the error of login for an email that has none.
C18_LoginFailureUniform ==
    \A e \in Emails, e2 \in Emails, pw \in Passwords :
        /\ UserFound(e) /\ ~BcryptCompare(PwStr(pw), Val(FindUser(e).password))
        /\ ~UserFound(e2)
        => LoginFailure(e, pw) = LoginFailure(e2, pw)

\* C19: a user has at most one pending OTP.  Each sendOtp or forgotPassword
\* for a user (also one whose mail then fails) overwrites otpCode and
\* otpExpires with the new code and its expiry, so that afterwards verifyOtp
\* passes with the code of this send only: every other code, the code of an
\* earlier send included, is rejected.
C19_OnePendingOtp ==
    [][\A e \in Emails, c \in OtpCodes, m \in MailOutcomes :
          /\ resp'.op \in {"sendOtp", "forgotPassword"} /\ resp'.email = e
          /\ UserFound(e)
          /\ (SendOtp(e, c, m) \/ ForgotPassword(e, c, m))
          => /\ users'[e].otpCode = Some(BcryptHash(OtpStr(c)))
             /\ users'[e].otpExpires = Some(now + OtpTtlMinutes)
             /\ VerifyOtpFailure(e, c)'[1] = "ok"
             /\ \A c2 \in OtpCodes \ {c} : VerifyOtpFailure(e, c2)'[1] = "BadRequest"]_vars

\* C19 witness: a verifyOtp with another code than the pending one was
\* rejected, and the pending one, which a send after the start stored, passes
C19_Witness ==
    /\ resp.op = "verifyOtp" /\ resp.why = "invalid"
    /\ now > OtpTtlMinutes
    /\ \E c \in OtpCodes \ {resp.otp} : VerifyOtpFailure(resp.email, c)[1] = "ok"

\* C20: cart operations touch the caller's own cart only.  updateCartItem and
\* removeItem on an item id that does not exist or belongs to another user's
\* cart fail with NotFound and change no row; and every step of an
\* addItemToCart, updateCartItem, removeItem, clearCart or convertCartToOrder
\* made for user A leaves the carts and the cart items of every other user
\* unchanged.
C20_Owned(B) ==
    [carts |-> CartsOf(B),
     items |-> {i \in cartItems : \E c \in CartsOf(B) : c.id = i.cartId}]
\* a step made for user A: a call of A that completed (every call answers with
\* its caller), or a step of a conversion of A's cart
C20_StepOf(A) ==
    \/ conv' = conv /\ cartResp'.userId = A
    \/ \E p \in Procs : conv'[p] # conv[p] /\ A \in {conv[p].userId, conv'[p].userId}
C20_OwnCartOnly ==
    [][\A A \in CartUsers :
          /\ \A i \in 1..MaxItemId :
                /\ cartResp'.op \in {"updateCartItem", "removeItem"}
                /\ ~\E r \in cartItems : r.id = i /\ \E c \in CartsOf(A) : c.id = r.cartId
                /\ (RemoveItem(A, i) \/ \E q \in SetQuantities : UpdateCartItem(A, i, q))
                => cartResp'.status = "NotFound" /\ cartItems' = cartItems
          /\ C20_StepOf(A)
             => \A B \in CartUsers \ {A} : C20_Owned(B)' = C20_Owned(B)]_vars

\* C20 witness: a clearCart for a user who had items has emptied that user's
\* cart while the other user's cart holds its item
C20_Witness ==
    /\ cartResp.op = "clearCart"
    /\ CartsOf(cartResp.userId) # {}
    /\ C20_Owned(cartResp.userId).items = {}
    /\ \E B \in CartUsers \ {cartResp.userId} : C20_Owned(B).items # {}

\* C21: every stored CartItem has quantity >= 1 after any sequence of
\* addItemToCart, updateCartItem and removeItem calls of the cart service made
\* with integer quantities.
C21_QuantityPositive == \A i \in cartItems : i.quantity >= 1

\* C22: each user has at most one cart: after any interleaving of getMyCart
\* and addItemToCart calls the store holds at most one Cart row per userId.
C22_OneCartPerUser ==
    \A c \in carts, d \in carts : c.userId = d.userId => c.id = d.id

\* C23: an order created from a cart is a snapshot by value: every later
\* addItemToCart, updateCartItem, removeItem, clearCart and every later change
\* of a variant's price leaves each stored order, its totalPrice and each of
\* its order items (variantId, quantity, price), as it was.
C23_OrderIsSnapshot ==
    [][cartResp'.op \in {"addItemToCart", "updateCartItem", "removeItem", "clearCart",
                         "updateVariant"}
          /\ conv' = conv
          => \A o \in orders : \E o2 \in orders' :
                /\ o2.id = o.id
                /\ o2.totalPrice = o.totalPrice
                /\ o2.items = o.items]_vars

\* C23 witness: an order holds an item at the price and quantity of its
\* conversion while the variant's price has changed since and the cart holds
\* the variant again with another quantity
C23_Witness ==
    \E o \in orders : \E k \in 1..Len(o.items) : \E i \in cartItems :
        /\ o.items[k].price # price[o.items[k].variantId]
        /\ i.variantId = o.items[k].variantId
        /\ i.quantity # o.items[k].quantity
        /\ o.totalPrice = o.items[k].price * o.items[k].quantity

\* C24: concurrent refresh.  When two refreshTokens calls for a user presented
\* the same valid refresh token, both passed the checks before either wrote
\* and both have completed with a new token, the stored hash corresponds to
\* one of the two issued tokens and at most one refresh token of the user is
\* accepted by a refreshTokens from then on.
C24_Accepted(u) == {t \in PresentedTokens : RefreshFailure(u, t) = ""}
C24_OneTokenAfterRace ==
    \A p \in Procs, q \in Procs :
        /\ p # q
        /\ conv[p].pc = "refreshDone" /\ conv[q].pc = "refreshDone"
        /\ conv[p].userId = conv[q].userId
        /\ conv[p].presented = conv[q].presented
        /\ conv[p].overlap
        => /\ \E t \in {Val(conv[p].issued), Val(conv[q].issued)} :
                 BcryptCompare(t, Val(users[conv[p].userId].hashedRefreshToken))
           /\ Cardinality(C24_Accepted(conv[p].userId)) <= 1

\* C25: verifyOtp checks its failure conditions in a fixed order: NotFound
\* when the user is absent, then BadRequest when no OTP is pending, then
\* BadRequest when the stored expiry has passed, then BadRequest when the code
\* does not match; and every failing verifyOtp leaves the user's row
\* (isActive, otpCode, otpExpires) unchanged, so a pending OTP stays pending.
C25_Expected(e, c) ==
    IF ~users[e].registered THEN <<"NotFound", "user">>
    ELSE IF users[e].otpCode = Null THEN <<"BadRequest", "no-otp">>
    ELSE IF users[e].otpExpires # Null /\ users[e].otpExpires[1] < now
         THEN <<"BadRequest", "expired">>
    ELSE IF users[e].otpCode # Some(BcryptHash(OtpStr(c)))
         THEN <<"BadRequest", "invalid">>
    ELSE <<"ok", "">>
C25_VerifyOtpOrder ==
    [][\A e \in Emails, c \in OtpCodes :
          resp'.op = "verifyOtp" /\ resp'.email = e /\ resp'.otp = c
          => /\ <<resp'.status, resp'.why>> = C25_Expected(e, c)
             /\ resp'.status # "ok"
                => /\ users' = users
                   /\ users'[e].otpCode = users[e].otpCode
                   /\ users'[e].isActive = users[e].isActive]_vars

\* C25 witness: a verifyOtp with a wrong code after the expiry was refused as
\* expired, and the OTP is still stored
C25_Witness ==
    /\ resp.op = "verifyOtp" /\ resp.why = "expired"
    /\ ~IsNull(users[resp.email].otpCode)
    /\ users[resp.email].otpCode # Some(BcryptHash(OtpStr(resp.otp)))

\* C26: convertCartToOrder and placeOrderFromCart implement the same
\* operation: from the same store state, with the same userId and
\* shippingDetails, they fail in the same cases and otherwise create an order
\* with the same totalPrice, status, paymentStatus, shipping fields and order
\* items, and leave the cart in the same state.
C26_SameOperation ==
    \A u \in CartUsers, sh \in ShippingInputs :
        ConvOutcome("convertCartToOrder", u, sh) = ConvOutcome("placeOrderFromCart", u, sh)

\* C27: no cart item is lost by a checkout that runs concurrently with
\* addItemToCart: every CartItem, with the quantity it has, that the
\* conversion's commit deletes from the cart is among the order items of the
\* order it creates (so an item added after the conversion read the cart
\* either stays in the cart or is in the order).
C27_NoItemLost ==
    [][\A p \in Procs :
          conv[p].pc = "deleted" /\ orders' # orders
          => \A i \in cartItems :
                i.id \in conv[p].deleted /\ i \notin cartItems'
                => \E o \in orders' \ orders : \E k \in 1..Len(o.items) :
                      /\ o.items[k].variantId = i.variantId
                      /\ o.items[k].quantity = i.quantity]_vars

\* C28: a cart's contents are converted into at most one order: when two
\* checkouts of the same user run concurrently on a non-empty cart, an order
\* is created only from cart rows that are still in the cart, so the rows one
\* checkout converted are not converted a second time by the other.
C28_ConvertedOnce ==
    [][\A p \in Procs :
          conv[p].pc = "deleted" /\ orders' # orders
          => \A k \in 1..Len(conv[p].items) :
                \E i \in cartItems : i.id = conv[p].items[k].id]_vars

\* the order a call of OrderService.update is about, as it was when the call
\* began
C29_Before(p, id) ==
    IF conv[p].pc = "idle" THEN OrderById(id) ELSE {Val(conv[p].existing)}

\* C29: OrderService.update with an items list is all-or-nothing: when it
\* completes, the order's items are exactly the given items and totalPrice is
\* the sum of price x quantity over them; when any of its steps fails, the
\* order's totalPrice and items are as they were before the call; in both
\* cases the order's userId is unchanged.
C29_UpdateAllOrNothing ==
    [][\A p \in Procs :
          /\ cartResp'.op = "updateOrder" /\ cartResp' # cartResp
          /\ conv[p].pc \in {"idle", "orderUpdated", "orderItemsDeleted"}
          /\ conv'[p].pc = "idle"
          /\ conv[p].pc = "idle" => conv' = conv
          => \A b \in C29_Before(p, cartResp'.orderId) :
                \E a \in orders' :
                   /\ a.id = b.id /\ a.userId = b.userId
                   /\ IF cartResp'.status = "ok"
                      THEN /\ a.items = MapItems(conv[p].items)
                           /\ a.totalPrice = SumTotal(conv[p].items)
                      ELSE /\ a.items = b.items
                           /\ a.totalPrice = b.totalPrice]_vars

\* C30: AssetService.findOne, update and remove called with an id for which
\* no asset exists fail with a NotFound error, not with another kind of
\* error, and change no stored asset.
C30_MissingAssetNotFound ==
    [][\A id \in 1..(MaxAssetId + 1), u \in CartUsers :
          /\ cartResp'.op \in {"asset.findOne", "asset.update", "asset.remove"}
          /\ cartResp'.userId = u
          /\ AssetById(id) = {}
          /\ \/ AssetFindOne(id, u)
             \/ \E url \in AssetUrls : AssetUpdate(id, url, u)
             \/ \E f \in BOOLEAN : AssetRemove(id, u, f)
          => /\ cartResp'.status = "NotFound"
             /\ assets' = assets]_vars

====
